---- MODULE Spec2Model ----
(***************************************************************************)
(* Signed reversal distance (src/core/reversal_directed.py), the           *)
(* breakpoint diagram of a sequence (src/core/visualization.py) and the    *)
(* tab that drives both (src/ui/function3_tab.py).                         *)
(*                                                                         *)
(* Python lists are mutable objects, so every list of SignedElement lives  *)
(* on a heap and is named by a reference (its index in heap).  A token is  *)
(* a Python str, modelled as a sequence of one-character strings.  A       *)
(* SignedElement is never written after __init__ (flip builds a new one),  *)
(* so elements are values: records [value, sign].                          *)
(***************************************************************************)
EXTENDS Integers, Sequences, FiniteSets, TLC

VARIABLES
    initial_seq,     \* argument of calculate_steps_directed: list of tokens
    target_seq,      \* argument of calculate_steps_directed: list of tokens
    heap,            \* the list objects alive in the call, by reference
    initial_parsed,  \* reference of the parsed initial sequence (0: none yet)
    target_parsed,   \* reference of the parsed target sequence (0: none yet)
    queue,           \* the deque of (current_seq, path) entries
    visited,         \* the set of sequence_to_tuple keys
    expanded,        \* references popped from the queue, in order
    steps,           \* path returned by reversal_distance_directed_bfs
    num_steps,       \* distance returned by reversal_distance_directed_bfs
    err,             \* the exception raised by the call, "" if none
    result,          \* the dict returned by calculate_steps_directed
    pc,              \* position of the call
    prev,            \* the previous call of the caller, NoCall if none
    op,              \* a single apply_reversal_directed exercise
    applied,         \* for each state enqueued or returned, the (i, j) that made it
    current_sequence,  \* the list of tokens the diagram is made for
    viz_step,          \* step argument of create_expanded_sequence_diagram
    expanded_sequence, \* the list returned by expand_sequence_with_lr
    union_lines,       \* the straight lines plotted at step >= 1, as (i, i + 1)
    unions,            \* the dict node index -> paired node index
    nodes_in_cycles,   \* the set of nodes already in a cycle
    drawn_arcs,        \* the set of arc keys already drawn
    arcs,              \* the arcs handed to _draw_arrow_arc, in order
    start_idx,         \* the outer for loop of _draw_cycle_arcs
    current_idx,       \* the node the trace stands on
    cycle_nodes,       \* the nodes of the trace under way
    cycles,            \* cycle_nodes of each trace ended, in order
    node_idx,          \* the for loop of the final pass; the node asked about
    target_idx,        \* the last answer of get_target_node
    apc,               \* position of the diagram call
    initial_entry,     \* text of the entry of the initial sequence
    target_entry,      \* text of the entry of the target sequence
    current_result,    \* Function3Tab.current_result, NoResult for None
    max_viz_step,      \* Function3Tab.max_viz_step
    viz_step_var,      \* Function3Tab.viz_step_var
    shown,             \* title of the last messagebox.showerror, "" if none
    tpc,               \* position of the tab: idle, or inside a handler
    resume,            \* where the tab goes on when the figure is made
    search_args,       \* the arguments reversal_sort_directed was last called with
    algorithm_step     \* algorithm_step of the last update_visualization

vars == <<initial_seq, target_seq, heap, initial_parsed, target_parsed, queue,
          visited, expanded, steps, num_steps, err, result, pc, prev, op,
          applied, current_sequence, viz_step, expanded_sequence, union_lines,
          unions, nodes_in_cycles, drawn_arcs, arcs, start_idx, current_idx,
          cycle_nodes, cycles, node_idx, target_idx, apc, initial_entry,
          target_entry, current_result, max_viz_step, viz_step_var, shown, tpc,
          resume, search_args, algorithm_step>>

searchVars == <<initial_seq, target_seq, initial_parsed, target_parsed, queue,
                visited, expanded, steps, num_steps, err, result, prev, applied>>

arcVars == <<current_sequence, viz_step, expanded_sequence, union_lines, unions,
             nodes_in_cycles, drawn_arcs, arcs, start_idx, current_idx,
             cycle_nodes, cycles, node_idx, target_idx, apc>>

tabVars == <<initial_entry, target_entry, current_result, max_viz_step,
             viz_step_var, shown, tpc, resume, search_args, algorithm_step>>

---------------------------------------------------------------------------
(* Bounds and program constants *)

\* longest sequence whose whole signed arrangement space is drawn as input
MaxLen == 3

\* len(initial_seq) > 10 raises
MaxElements == 10

NoCall == [none |-> TRUE]
NoResult == [none |-> TRUE]
NoOp == [pc |-> "none"]

\* Python's None where an index is expected
None == 0 - 1

\* no diagram is being made
ArcsIdle ==
    /\ current_sequence = <<>>
    /\ viz_step = 0
    /\ expanded_sequence = <<>>
    /\ union_lines = {}
    /\ unions = <<>>
    /\ nodes_in_cycles = {}
    /\ drawn_arcs = {}
    /\ arcs = <<>>
    /\ start_idx = 0
    /\ current_idx = 0
    /\ cycle_nodes = {}
    /\ cycles = <<>>
    /\ node_idx = 0
    /\ target_idx = None
    /\ apc = "idle"

\* the tab is not in use
TabIdle ==
    /\ initial_entry = <<>>
    /\ target_entry = <<>>
    /\ current_result = NoResult
    /\ max_viz_step = 0
    /\ viz_step_var = 0
    /\ shown = ""
    /\ tpc = "none"
    /\ resume = "none"
    /\ search_args = <<>>
    /\ algorithm_step = None

LengthExceeded == "La secuencia no debe tener mas de 10 elementos"
LengthMismatch == "Las secuencias deben tener el mismo tamano"

---------------------------------------------------------------------------
(* Python helpers *)

Min(a, b) == IF a <= b THEN a ELSE b

DigitChars == <<"0", "1", "2", "3", "4", "5", "6", "7", "8", "9">>

IsDigitChar(c) == \E k \in 1..10 : DigitChars[k] = c

DigitVal(c) == (CHOOSE k \in 1..10 : DigitChars[k] = c) - 1

\* str.isdigit(): non-empty and every character a digit
isdigit(s) == Len(s) > 0 /\ \A k \in 1..Len(s) : IsDigitChar(s[k])

\* str.lstrip('-')
RECURSIVE lstrip_minus(_)
lstrip_minus(s) ==
    IF s # <<>> /\ Head(s) = "-" THEN lstrip_minus(Tail(s)) ELSE s

\* value of a string of digits
RECURSIVE DecVal(_)
DecVal(s) ==
    IF s = <<>> THEN 0 ELSE DecVal(SubSeq(s, 1, Len(s) - 1)) * 10 + DigitVal(s[Len(s)])

\* int(s) for the strings the constructor hands it: digits, or one '-' and
\* digits; anything else raises ValueError
int(s) ==
    IF isdigit(s) THEN DecVal(s)
    ELSE IF s # <<>> /\ Head(s) = "-" /\ isdigit(Tail(s)) THEN 0 - DecVal(Tail(s))
    ELSE "ValueError"

\* str(n) of an integer
RECURSIVE StrNat(_)
StrNat(n) ==
    IF n < 10 THEN <<DigitChars[n + 1]>>
    ELSE StrNat(n \div 10) \o <<DigitChars[(n % 10) + 1]>>

\* isinstance(v, int), for a value that is an int or a str
IntNames == {ToString(k) : k \in (0 - 99)..99}
IsInt(v) == ToString(v) \in IntNames

\* str(v) of an int or a str
str(v) ==
    IF IsInt(v) THEN (IF v < 0 THEN <<"-">> \o StrNat(0 - v) ELSE StrNat(v))
    ELSE v

---------------------------------------------------------------------------
(* SignedElement *)

\* SignedElement.__init__(value) with a str value
SignedElement(value) ==
    IF value # <<>> /\ Head(value) = "+"
    THEN [value |-> IF isdigit(lstrip_minus(Tail(value))) THEN int(Tail(value))
                    ELSE Tail(value),
          sign |-> 1]
    ELSE IF value # <<>> /\ Head(value) = "-"
    THEN [value |-> IF isdigit(Tail(value)) THEN int(Tail(value)) ELSE Tail(value),
          sign |-> -1]
    ELSE [value |-> IF isdigit(lstrip_minus(value)) THEN int(value) ELSE value,
          sign |-> 1]

\* flip that always answers the negative orientation
flip_negative(e) == [value |-> e.value, sign |-> -1]

\* SignedElement.flip: SignedElement(self.value, -self.sign); the constructor
\* reads a str value over again and leaves the sign argument aside
flip(e) ==
    IF IsInt(e.value) THEN [value |-> e.value, sign |-> 0 - e.sign]
    ELSE SignedElement(e.value)

\* SignedElement.__eq__
ElemEq(a, b) == a.value = b.value /\ a.sign = b.sign

\* SignedElement.__repr__
repr(e) == <<(IF e.sign > 0 THEN "+" ELSE "-")>> \o str(e.value)

\* list.__eq__ over SignedElement lists
ListEq(a, b) ==
    Len(a) = Len(b) /\ \A k \in 1..Len(a) : ElemEq(a[k], b[k])

parse_signed_sequence(sequence) ==
    [k \in 1..Len(sequence) |-> SignedElement(sequence[k])]

\* the key made of the values alone
sequence_to_tuple_unsigned(sequence) ==
    [k \in 1..Len(sequence) |-> <<sequence[k].value>>]

sequence_to_tuple(sequence) ==
    [k \in 1..Len(sequence) |-> <<sequence[k].value, sequence[k].sign>>]

---------------------------------------------------------------------------
(* apply_reversal_directed *)

\* reversed(s)
reversed(s) == [k \in 1..Len(s) |-> s[Len(s) + 1 - k]]

\* the segment flipped but left in its order
reversed_segment_in_order(s, i, j) ==
    LET seg == SubSeq(s, Min(i, Len(s)) + 1, Min(j + 1, Len(s)))
    IN  [k \in 1..Len(seg) |-> flip(seg[k])]

\* the segment taken as result[i:j], one element short
reversed_segment_short(s, i, j) ==
    LET seg == SubSeq(s, Min(i, Len(s)) + 1, Min(j, Len(s)))
    IN  [k \in 1..Len(seg) |-> flip(reversed(seg)[k])]

\* [elem.flip() for elem in reversed(result[i:j+1])], i and j 0-based
reversed_segment(s, i, j) ==
    LET lo == Min(i, Len(s))
        hi == Min(j + 1, Len(s))
        seg == SubSeq(s, lo + 1, hi)
    IN  [k \in 1..Len(seg) |-> flip(reversed(seg)[k])]

\* result[i:j+1] = reversed_segment on a copy of s
reversed_value(s, i, j) ==
    LET lo == Min(i, Len(s))
        hi == IF Min(j + 1, Len(s)) < lo THEN lo ELSE Min(j + 1, Len(s))
    IN  SubSeq(s, 1, lo) \o reversed_segment(s, i, j) \o SubSeq(s, hi + 1, Len(s))

\* result = sequence, no copy: the slice assignment writes the argument
apply_reversal_directed_in_place(h, sequence, i, j) ==
    [heap |-> [h EXCEPT ![sequence] = reversed_value(h[sequence], i, j)],
     ref |-> sequence]

\* the call on the heap: result = sequence[:] allocates a new list, the slice
\* assignment writes the new list, the new list is returned
apply_reversal_directed(h, sequence, i, j) ==
    [heap |-> Append(h, reversed_value(h[sequence], i, j)), ref |-> Len(h) + 1]

\* a list no variable refers to any more is collected
Release(h, before) == SubSeq(h, 1, before)

---------------------------------------------------------------------------
(* reversal_distance_directed_bfs *)

\* the (i, j) in the opposite order: the last of the two loops first
RECURSIVE RangePairsFrom_descending(_, _, _)
RangePairsFrom_descending(n, i, j) ==
    IF i >= n THEN <<>>
    ELSE IF j >= n THEN RangePairsFrom_descending(n, i + 1, i + 1)
    ELSE RangePairsFrom_descending(n, i, j + 1) \o <<(<<i, j>>)>>

\* for i in range(n): for j in range(i, n): the (i, j) in the order visited
RECURSIVE RangePairsFrom(_, _, _)
RangePairsFrom(n, i, j) ==
    IF i >= n THEN <<>>
    ELSE IF j >= n THEN RangePairsFrom(n, i + 1, i + 1)
    ELSE <<(<<i, j>>)>> \o RangePairsFrom(n, i, j + 1)

\* j starting at i + 1: no reversal of a single element
RangePairs_no_single(n) ==
    SelectSeq(RangePairsFrom(n, 0, 0), LAMBDA p : p[1] < p[2])

RangePairs(n) == RangePairsFrom(n, 0, 0)

\* the path returned without the state that matched
FinalPath_without_last(path, new_seq) == path

\* final_path = path + [new_seq]
FinalPath(path, new_seq) == Append(path, new_seq)

\* the entry put at the left end, where popleft takes it next
Enqueue_left(q, entry) == <<entry>> \o q

\* queue.append((new_seq, path + [new_seq]))
Enqueue(q, entry) == Append(q, entry)

\* the body of the two for loops, from the k-th (i, j) on, for one popped
\* (current_seq, path).  st carries the heap, visited and the queue; found is
\* set by the return inside the loop, with final_path.  st.applied notes, for
\* the reference of each new_seq kept, the current_seq and (i, j) it came from.
\* The state so far and the list apply_reversal_directed returns are bound as
\* values (st, r) by the two one-element sets, so that each is computed once.
RECURSIVE ScanReversals(_, _, _, _, _, _)
ScanReversals(state, current_seq, path, target, pairs, k) ==
    IF k > Len(pairs) THEN state
    ELSE CHOOSE after \in UNION {{
        LET before == Len(st.heap)
            new_seq == r.ref
            new_seq_tuple == sequence_to_tuple(r.heap[new_seq])
        IN  IF ListEq(r.heap[new_seq], r.heap[target])
            THEN [st EXCEPT !.heap = r.heap, !.found = TRUE,
                            !.final_path = FinalPath(path, new_seq),
                            !.applied = Append(st.applied,
                                [seq |-> new_seq, from |-> current_seq, ij |-> pairs[k]])]
            ELSE IF new_seq_tuple \notin st.visited
            THEN ScanReversals(
                     [st EXCEPT !.heap = r.heap,
                                !.visited = st.visited \cup {new_seq_tuple},
                                !.queue = Enqueue(st.queue,
                                    [seq |-> new_seq, path |-> Append(path, new_seq)]),
                                !.applied = Append(st.applied,
                                    [seq |-> new_seq, from |-> current_seq, ij |-> pairs[k]])],
                     current_seq, path, target, pairs, k + 1)
            ELSE ScanReversals([st EXCEPT !.heap = Release(r.heap, before)],
                               current_seq, path, target, pairs, k + 1)
        : r \in {apply_reversal_directed(st.heap, current_seq,
                                         pairs[k][1], pairs[k][2])}}
        : st \in {state}} : TRUE

\* only the check of len(initial_seq) > 10
EntryError_no_mismatch(ip, tp) ==
    IF Len(ip) > MaxElements THEN LengthExceeded ELSE ""

\* the two length checks at the head of reversal_distance_directed_bfs: the
\* message of the ValueError raised, "" if none
EntryError(ip, tp) ==
    IF Len(ip) > MaxElements THEN LengthExceeded
    ELSE IF Len(ip) # Len(tp) THEN LengthMismatch
    ELSE ""

\* the search entered without the test
AlreadyEqual_never(ip, tp) == FALSE

\* if initial_seq == target_seq
AlreadyEqual(ip, tp) == ListEq(ip, tp)

\* calculate_steps_directed up to the BFS loop: parse both sequences, then the
\* checks and the initialisation of reversal_distance_directed_bfs
Call ==
    /\ pc = "call"
    /\ LET ip == parse_signed_sequence(initial_seq)
           tp == parse_signed_sequence(target_seq)
       IN  /\ heap' = <<ip, tp>>
           /\ initial_parsed' = 1
           /\ target_parsed' = 2
           /\ IF EntryError(ip, tp) # ""
              THEN /\ err' = EntryError(ip, tp)
                   /\ pc' = "raised"
                   /\ UNCHANGED <<queue, visited, steps, num_steps>>
              ELSE IF AlreadyEqual(ip, tp)
              THEN /\ steps' = <<1>>
                   /\ num_steps' = 0
                   /\ pc' = "returned"
                   /\ UNCHANGED <<queue, visited, err>>
              ELSE /\ queue' = <<[seq |-> 1, path |-> <<1>>]>>
                   /\ visited' = {sequence_to_tuple(ip)}
                   /\ pc' = "bfs"
                   /\ UNCHANGED <<steps, num_steps, err>>
    /\ UNCHANGED <<initial_seq, target_seq, expanded, result, prev, op, applied>>
    /\ UNCHANGED arcVars
    /\ UNCHANGED tabVars

\* one iteration of `while queue`: popleft, then every reversal of the state
Expand ==
    /\ pc = "bfs"
    /\ queue # <<>>
    /\ \E st \in {ScanReversals(
                     [heap |-> heap, visited |-> visited, queue |-> Tail(queue),
                      found |-> FALSE, final_path |-> <<>>, applied |-> applied],
                     Head(queue).seq, Head(queue).path, target_parsed,
                     RangePairs(Len(heap[Head(queue).seq])), 1)} :
          /\ heap' = st.heap
          /\ visited' = st.visited
          /\ queue' = st.queue
          /\ expanded' = Append(expanded, Head(queue).seq)
          /\ applied' = st.applied
          /\ IF st.found
             THEN /\ steps' = st.final_path
                  /\ num_steps' = Len(st.final_path) - 1
                  /\ pc' = "returned"
             ELSE UNCHANGED <<steps, num_steps, pc>>
    /\ UNCHANGED <<initial_seq, target_seq, initial_parsed, target_parsed, err,
                   result, prev, op>>
    /\ UNCHANGED arcVars
    /\ UNCHANGED tabVars

\* the queue ran empty, answered as if nothing had to be done
Exhausted_zero ==
    /\ pc = "bfs"
    /\ queue = <<>>
    /\ steps' = <<initial_parsed>>
    /\ num_steps' = 0
    /\ pc' = "returned"
    /\ UNCHANGED <<initial_seq, target_seq, heap, initial_parsed, target_parsed,
                   queue, visited, expanded, err, result, prev, op, applied>>
    /\ UNCHANGED arcVars
    /\ UNCHANGED tabVars

\* the empty queue goes unnoticed: the loop spins
Exhausted_stuck ==
    /\ pc = "bfs"
    /\ queue = <<>>
    /\ UNCHANGED vars

\* the queue ran empty: return [initial_seq], -1
Exhausted ==
    /\ pc = "bfs"
    /\ queue = <<>>
    /\ steps' = <<initial_parsed>>
    /\ num_steps' = -1
    /\ pc' = "returned"
    /\ UNCHANGED <<initial_seq, target_seq, heap, initial_parsed, target_parsed,
                   queue, visited, expanded, err, result, prev, op, applied>>
    /\ UNCHANGED arcVars
    /\ UNCHANGED tabVars

---------------------------------------------------------------------------
(* calculate_steps_directed, after the search *)

\* the scan with end starting at start + 1: no single-element range
RECURSIVE FindReversal_no_single(_, _, _, _, _)
FindReversal_no_single(h, current, next_seq, pairs, k) ==
    IF k > Len(pairs) THEN <<>>
    ELSE LET r == apply_reversal_directed(h, current, pairs[k][1], pairs[k][2])
         IN  IF pairs[k][1] < pairs[k][2] /\ ListEq(r.heap[r.ref], r.heap[next_seq])
             THEN <<pairs[k]>>
             ELSE FindReversal_no_single(Release(r.heap, Len(h)), current, next_seq,
                                         pairs, k + 1)

\* the first (start, end) of the scan with apply_reversal_directed(current,
\* start, end) == next_seq, as a one-element list; empty if the scan ends
RECURSIVE FindReversal(_, _, _, _, _)
FindReversal(h, current, next_seq, pairs, k) ==
    IF k > Len(pairs) THEN <<>>
    ELSE CHOOSE found \in UNION {{
             IF ListEq(r.heap[r.ref], r.heap[next_seq])
             THEN <<pairs[k]>>
             ELSE FindReversal(Release(r.heap, Len(hp)), current, next_seq, pairs, k + 1)
         : r \in {apply_reversal_directed(hp, current, pairs[k][1], pairs[k][2])}}
         : hp \in {h}} : TRUE

\* the reversions list with each scan keeping its last match, not its first
RECURSIVE Reversions_last_match(_, _, _)
Reversions_last_match(h, path, i) ==
    IF i > Len(path) - 1 THEN <<>>
    ELSE FindReversal(h, path[i], path[i + 1],
                      reversed(RangePairs(Len(h[path[i]]))), 1)
         \o Reversions_last_match(h, path, i + 1)

\* for i in range(len(steps) - 1): the reversions list from step i on (1-based)
RECURSIVE Reversions(_, _, _)
Reversions(h, path, i) ==
    IF i > Len(path) - 1 THEN <<>>
    ELSE FindReversal(h, path[i], path[i + 1], RangePairs(Len(h[path[i]])), 1)
         \o Reversions(h, path, i + 1)

\* [[str(elem) for elem in step] for step in steps]
FormatSteps(h, path) ==
    [s \in 1..Len(path) |-> [k \in 1..Len(h[path[s]]) |-> repr(h[path[s]][k])]]

Reconstruct ==
    /\ pc = "returned"
    /\ result' = [initial |-> initial_seq,
                  target |-> target_seq,
                  steps |-> FormatSteps(heap, steps),
                  num_steps |-> num_steps,
                  reversions |-> Reversions(heap, steps, 1)]
    /\ pc' = "done"
    /\ UNCHANGED <<initial_seq, target_seq, heap, initial_parsed, target_parsed,
                   queue, visited, expanded, steps, num_steps, err, prev, op,
                   applied>>
    /\ UNCHANGED arcVars
    /\ UNCHANGED tabVars

---------------------------------------------------------------------------
(* The queries *)

Token(v, sgn) == <<(IF sgn > 0 THEN "+" ELSE "-")>> \o StrNat(v)

Tokens(n) == {Token(v, sgn) : v \in 1..n, sgn \in {1, -1}}

\* every signed arrangement of the labels 1..n
SignedPerms(n) ==
    {s \in [1..n -> Tokens(n)] :
        \A a, b \in 1..n : a # b => Tail(s[a]) # Tail(s[b])}

\* every signed sequence of length n over the one label 1
Mono(n) == [1..n -> Tokens(1)]

\* +1 +2 ... +n
Ident(n) == [k \in 1..n |-> Token(k, 1)]

\* +1 ... +(n-1) +(n+1): another multiset of labels than Ident(n)
Shifted(n) == [k \in 1..n |-> Token(IF k = n THEN n + 1 ELSE k, 1)]

Queries ==
    \* a signed permutation against the identity of any drawn length
       {<<a, Ident(m)>> : a \in UNION {SignedPerms(n) : n \in 0..MaxLen}, m \in 0..MaxLen}
    \* any two signed permutations below the longest length
    \cup UNION {SignedPerms(n) \X SignedPerms(n) : n \in 0..(MaxLen - 1)}
    \* a sequence against itself
    \cup {<<a, a>> : a \in UNION {SignedPerms(n) : n \in 0..MaxLen}}
    \* repeated labels: against each other, and against the identity
    \cup UNION {Mono(n) \X Mono(n) : n \in 1..MaxLen}
    \cup UNION {Mono(n) \X {Ident(n)} : n \in 1..MaxLen}
    \* other labels in the target
    \cup {<<Ident(n), Shifted(n)>> : n \in 1..MaxLen}
    \* every pair of lengths up to one past the limit
    \cup {<<Ident(k), Ident(m)>> : k, m \in 0..(MaxElements + 1)}

Init ==
    /\ \E q \in Queries : initial_seq = q[1] /\ target_seq = q[2]
    /\ heap = <<>>
    /\ initial_parsed = 0
    /\ target_parsed = 0
    /\ queue = <<>>
    /\ visited = {}
    /\ expanded = <<>>
    /\ steps = <<>>
    /\ num_steps = 0
    /\ err = ""
    /\ result = NoResult
    /\ pc = "call"
    /\ prev = NoCall
    /\ op = NoOp
    /\ applied = <<>>
    /\ ArcsIdle
    /\ TabIdle

\* the caller asks the opposite question next: the same two sequences, swapped
CallSwapped ==
    /\ pc \in {"done", "raised"}
    /\ prev = NoCall
    /\ prev' = [initial |-> initial_seq, target |-> target_seq, err |-> err,
                result |-> result]
    /\ initial_seq' = target_seq
    /\ target_seq' = initial_seq
    /\ heap' = <<>>
    /\ initial_parsed' = 0
    /\ target_parsed' = 0
    /\ queue' = <<>>
    /\ visited' = {}
    /\ expanded' = <<>>
    /\ steps' = <<>>
    /\ num_steps' = 0
    /\ err' = ""
    /\ result' = NoResult
    /\ pc' = "call"
    /\ applied' = <<>>
    /\ UNCHANGED op
    /\ UNCHANGED arcVars
    /\ UNCHANGED tabVars

Next ==
    \/ Call
    \/ Expand
    \/ Exhausted
    \/ Reconstruct
    \/ CallSwapped

Spec == Init /\ [][Next]_vars

\* one call each: a signed arrangement against the identity, repeated labels
\* against each other, other labels in the target
SearchQueries ==
       {<<a, Ident(Len(a))>> : a \in UNION {SignedPerms(n) : n \in 0..MaxLen}}
    \cup UNION {Mono(n) \X {[k \in 1..n |-> Token(1, 1)]} : n \in 1..MaxLen}
    \cup {<<Ident(n), Shifted(n)>> : n \in 1..MaxLen}

InitSearch ==
    /\ \E q \in SearchQueries : initial_seq = q[1] /\ target_seq = q[2]
    /\ heap = <<>>
    /\ initial_parsed = 0
    /\ target_parsed = 0
    /\ queue = <<>>
    /\ visited = {}
    /\ expanded = <<>>
    /\ steps = <<>>
    /\ num_steps = 0
    /\ err = ""
    /\ result = NoResult
    /\ pc = "call"
    /\ prev = NoCall
    /\ op = NoOp
    /\ applied = <<>>
    /\ ArcsIdle
    /\ TabIdle

NextSearch ==
    \/ Call
    \/ Expand
    \/ Exhausted
    \/ Reconstruct

\* the call runs on: a statement that can be executed is executed
SpecSearchFair == InitSearch /\ [][NextSearch]_vars /\ WF_vars(NextSearch)

---------------------------------------------------------------------------
(* apply_reversal_directed on its own: one sequence, one (i, j), applied once
   and then once more to its own result *)

Elements(n) == [value : 1..n, sign : {1, -1}]

ReversalInputs ==
    UNION {[1..n -> Elements(MaxLen)] : n \in 1..MaxLen}

InitReversal ==
    /\ \E s \in ReversalInputs : \E i \in 0..(Len(s) - 1) : \E j \in i..(Len(s) - 1) :
          /\ heap = <<s>>
          /\ op = [pc |-> "start", i |-> i, j |-> j, once |-> 0, twice |-> 0]
    /\ initial_seq = <<>>
    /\ target_seq = <<>>
    /\ initial_parsed = 0
    /\ target_parsed = 0
    /\ queue = <<>>
    /\ visited = {}
    /\ expanded = <<>>
    /\ steps = <<>>
    /\ num_steps = 0
    /\ err = ""
    /\ result = NoResult
    /\ pc = "unit"
    /\ prev = NoCall
    /\ applied = <<>>
    /\ ArcsIdle
    /\ TabIdle

ApplyOnce ==
    /\ op.pc = "start"
    /\ LET r == apply_reversal_directed(heap, 1, op.i, op.j)
       IN  /\ heap' = r.heap
           /\ op' = [op EXCEPT !.pc = "once", !.once = r.ref]
    /\ UNCHANGED <<searchVars, pc>>
    /\ UNCHANGED arcVars
    /\ UNCHANGED tabVars

ApplyTwice ==
    /\ op.pc = "once"
    /\ LET r == apply_reversal_directed(heap, op.once, op.i, op.j)
       IN  /\ heap' = r.heap
           /\ op' = [op EXCEPT !.pc = "twice", !.twice = r.ref]
    /\ UNCHANGED <<searchVars, pc>>
    /\ UNCHANGED arcVars
    /\ UNCHANGED tabVars

NextReversal ==
    \/ ApplyOnce
    \/ ApplyTwice

SpecReversal == InitReversal /\ [][NextReversal]_vars

---------------------------------------------------------------------------
(* Claims on apply_reversal_directed (SpecReversal) *)

\* C6: for every sequence and every valid (i, j), applying
\* apply_reversal_directed twice with the same (i, j) gives a sequence equal
\* to the one started from.
C6_DoubleReversalIsIdentity ==
    op.pc = "twice" => ListEq(heap[op.twice], heap[1])

\* a second application has happened on a range of two or more elements
C6_Witness ==
    /\ op.pc = "twice"
    /\ op.i < op.j
    /\ ~ListEq(heap[op.once], heap[1])

\* C7: for 0 <= i <= j < len(seq) the result has the length of seq, position k
\* of [i, j] holds the element of seq at i+j-k with its value kept and its sign
\* negated, and every other position holds the element seq has there; i = j
\* flips the sign of one element in one application.
C7_ReversalShape ==
    op.pc \in {"once", "twice"} =>
        LET seq == heap[1]
            out == heap[op.once]
        IN  /\ Len(out) = Len(seq)
            /\ \A k \in 0..(Len(seq) - 1) :
                  IF op.i <= k /\ k <= op.j
                  THEN /\ out[k + 1].value = seq[op.i + op.j - k + 1].value
                       /\ out[k + 1].sign = 0 - seq[op.i + op.j - k + 1].sign
                  ELSE out[k + 1] = seq[k + 1]

\* one application over a proper inner range of distinct labels
C7_Witness ==
    /\ op.pc = "once"
    /\ op.i = 1
    /\ op.j = 2
    /\ Len(heap[1]) = 3
    /\ heap[1][2].value # heap[1][3].value

---------------------------------------------------------------------------
(* expand_sequence_with_lr *)

L == <<"L">>
R == <<"R">>

\* the two tokens of one element with the two branches exchanged
ExpandElement_swapped(elem) ==
    LET signed_elem == SignedElement(elem)
        value == signed_elem.value
        sign == signed_elem.sign
    IN  IF sign > 0
        THEN <<(<<"+">> \o str(value)), (<<"-">> \o str(value))>>
        ELSE <<(<<"-">> \o str(value)), (<<"+">> \o str(value))>>

\* the body of the for loop: the two tokens appended for one element
ExpandElement(elem) ==
    LET signed_elem == SignedElement(elem)
        value == signed_elem.value
        sign == signed_elem.sign
    IN  IF sign > 0
        THEN <<(<<"-">> \o str(value)), (<<"+">> \o str(value))>>
        ELSE <<(<<"+">> \o str(value)), (<<"-">> \o str(value))>>

\* for elem in sequence, from the k-th element on
RECURSIVE ExpandFrom(_, _)
ExpandFrom(sequence, k) ==
    IF k > Len(sequence) THEN <<>>
    ELSE ExpandElement(sequence[k]) \o ExpandFrom(sequence, k + 1)

expand_sequence_with_lr(sequence) == <<L>> \o ExpandFrom(sequence, 1) \o <<R>>

---------------------------------------------------------------------------
(* create_expanded_sequence_diagram and _draw_cycle_arcs.  Node indices are
   Python's: the node idx of a list is its element idx + 1 here. *)

\* str.startswith(c) for a one-character c
startswith(e, c) == e # <<>> /\ Head(e) = c

\* list.index(elem): the first index holding elem
index(sequence, elem) ==
    CHOOSE i \in 0..(Len(sequence) - 1) :
        /\ sequence[i + 1] = elem
        /\ \A k \in 0..(i - 1) : sequence[k + 1] # elem

l_idx(sequence) == index(sequence, L)
r_idx(sequence) == index(sequence, R)

\* the dict of each token's first index
elem_to_idx(sequence) ==
    [elem \in {sequence[k] : k \in 1..Len(sequence)} |-> index(sequence, elem)]

\* the range started one node later: range(1, n - 2, 2)
EvenRange_odd(n) == {i \in 1..(n - 3) : i % 2 = 1}

\* range(0, n - 1, 2)
EvenRange(n) == {i \in 0..(n - 2) : i % 2 = 0}

\* a line from every node to the next one
StraightLines_all_neighbours(n) == {<<i, i + 1>> : i \in 0..(n - 2)}

\* the straight lines of step 1: one from x_positions[i] to x_positions[i + 1]
\* for i in range(0, n - 1, 2)
StraightLines(n) == {<<i, i + 1>> : i \in EvenRange(n)}

\* the pairs taken after L: 1-2, 3-4, ..., the sentinels in no pair
BuildUnions_after_L(n) ==
    [x \in 1..(n - 2) |-> IF x % 2 = 1 THEN x + 1 ELSE x - 1]

\* unions[i] = i + 1; unions[i + 1] = i for i in range(0, n - 1, 2)
BuildUnions(n) ==
    [x \in UNION {{i, i + 1} : i \in EvenRange(n)} |->
        IF x % 2 = 0 THEN x + 1 ELSE x - 1]

\* the loop of the R rule from index i on, with max_value and max_negative_idx
RECURSIVE MaxNegative(_, _, _, _)
MaxNegative(sequence, i, max_value, max_negative_idx) ==
    IF i >= Len(sequence) THEN max_negative_idx
    ELSE LET e == sequence[i + 1]
         IN  IF startswith(e, "-") /\ int(Tail(e)) > max_value
             THEN MaxNegative(sequence, i + 1, int(Tail(e)), i)
             ELSE MaxNegative(sequence, i + 1, max_value, max_negative_idx)

\* get_target_node with every '-' token sent to L
get_target_node_negative_to_L(sequence, idx) ==
    LET elem == sequence[idx + 1]
        n == Len(sequence)
    IN  IF elem = R THEN MaxNegative(sequence, 0, 0, None)
        ELSE IF elem = L
        THEN IF l_idx(sequence) + 1 < n
                /\ startswith(sequence[l_idx(sequence) + 2], "-")
             THEN l_idx(sequence) + 1
             ELSE None
        ELSE IF startswith(elem, "+")
        THEN LET target_elem == <<"-">> \o str(int(Tail(elem)) + 1)
             IN  IF target_elem \in DOMAIN elem_to_idx(sequence)
                 THEN elem_to_idx(sequence)[target_elem]
                 ELSE r_idx(sequence)
        ELSE IF startswith(elem, "-") THEN l_idx(sequence)
        ELSE None

\* get_target_node without the test target_value > 0
get_target_node_no_guard(sequence, idx) ==
    LET elem == sequence[idx + 1]
        n == Len(sequence)
    IN  IF elem = R THEN MaxNegative(sequence, 0, 0, None)
        ELSE IF elem = L
        THEN IF l_idx(sequence) + 1 < n
                /\ startswith(sequence[l_idx(sequence) + 2], "-")
             THEN l_idx(sequence) + 1
             ELSE None
        ELSE IF startswith(elem, "+")
        THEN LET target_elem == <<"-">> \o str(int(Tail(elem)) + 1)
             IN  IF target_elem \in DOMAIN elem_to_idx(sequence)
                 THEN elem_to_idx(sequence)[target_elem]
                 ELSE r_idx(sequence)
        ELSE IF startswith(elem, "-")
        THEN LET target_elem == <<"+">> \o str(int(Tail(elem)) - 1)
             IN  IF target_elem \in DOMAIN elem_to_idx(sequence)
                 THEN elem_to_idx(sequence)[target_elem]
                 ELSE l_idx(sequence)
        ELSE None

get_target_node(sequence, idx) ==
    LET elem == sequence[idx + 1]
        n == Len(sequence)
    IN  IF elem = R THEN MaxNegative(sequence, 0, 0, None)
        ELSE IF elem = L
        THEN IF l_idx(sequence) + 1 < n
                /\ startswith(sequence[l_idx(sequence) + 2], "-")
             THEN l_idx(sequence) + 1
             ELSE None
        ELSE IF startswith(elem, "+")
        THEN LET target_elem == <<"-">> \o str(int(Tail(elem)) + 1)
             IN  IF target_elem \in DOMAIN elem_to_idx(sequence)
                 THEN elem_to_idx(sequence)[target_elem]
                 ELSE r_idx(sequence)
        ELSE IF startswith(elem, "-")
        THEN LET target_value == int(Tail(elem)) - 1
                 target_elem == <<"+">> \o str(target_value)
             IN  IF target_value > 0 /\ target_elem \in DOMAIN elem_to_idx(sequence)
                 THEN elem_to_idx(sequence)[target_elem]
                 ELSE l_idx(sequence)
        ELSE None

\* arc_key = (a, b); drawn with _draw_arrow_arc if not in drawn_arcs.  w holds
\* the locals of the tracing loop: current_idx, cycle_nodes, nodes_in_cycles,
\* drawn_arcs, the arcs drawn, and brk once the while loop is left.
Draw(w, a, b) ==
    IF <<a, b>> \in w.drawn_arcs THEN w
    ELSE [w EXCEPT !.drawn_arcs = @ \cup {<<a, b>>}, !.arcs = Append(@, <<a, b>>)]

\* nodes_in_cycles.update(cycle_nodes) with no break after it
Close_no_break(w) ==
    [w EXCEPT !.nodes_in_cycles = @ \cup w.cycle_nodes]

\* nodes_in_cycles.update(cycle_nodes); break
Close(w) ==
    [w EXCEPT !.nodes_in_cycles = @ \cup w.cycle_nodes, !.brk = TRUE]

\* a sentinel s_idx met by the trace: its special target, the arc to it, and
\* the node the trace goes on from
SpecialTarget(sequence, w, s_idx) ==
    LET special_target == get_target_node(sequence, s_idx)
    IN  IF special_target = None THEN Close(w)
        ELSE LET w1 == [Draw(w, s_idx, special_target) EXCEPT
                           !.cycle_nodes = @ \cup {s_idx, special_target}]
             IN  IF special_target \in w1.cycle_nodes /\ special_target # s_idx
                 THEN Close(w1)
                 ELSE IF special_target \in DOMAIN unions
                 THEN LET paired_idx == unions[special_target]
                      IN  IF paired_idx \in w1.cycle_nodes THEN Close(w1)
                          ELSE [w1 EXCEPT !.cycle_nodes = @ \cup {paired_idx},
                                          !.current_idx = paired_idx]
                 ELSE [w1 EXCEPT !.current_idx = special_target]

\* the end of the while body, with next_idx decided
Continue(sequence, w, next_idx, target) ==
    IF next_idx \in w.cycle_nodes /\ next_idx # target THEN Close(w)
    ELSE IF next_idx = l_idx(sequence) \/ next_idx = r_idx(sequence)
    THEN SpecialTarget(sequence, w, next_idx)
    ELSE [w EXCEPT !.current_idx = next_idx]

\* one pass of the body of while True
WhileBody(sequence, start, w) ==
    LET target == get_target_node(sequence, w.current_idx)
    IN  IF target = None THEN [Close(w) EXCEPT !.target_idx = target]
        ELSE IF target \in w.cycle_nodes
        THEN [Close(Draw(w, w.current_idx, target)) EXCEPT !.target_idx = target]
        ELSE LET w1 == [Draw(w, w.current_idx, target) EXCEPT
                           !.cycle_nodes = @ \cup {target},
                           !.target_idx = target]
             IN  IF target \in DOMAIN unions
                 THEN LET paired_idx == unions[target]
                      IN  IF \/ paired_idx \in w1.cycle_nodes
                             \/ paired_idx = start
                             \/ paired_idx \in w1.nodes_in_cycles
                          THEN Close(w1)
                          ELSE Continue(sequence,
                                        [w1 EXCEPT !.cycle_nodes = @ \cup {paired_idx}],
                                        paired_idx, target)
                 ELSE IF target = l_idx(sequence) \/ target = r_idx(sequence)
                 THEN SpecialTarget(sequence, w1, target)
                 ELSE Continue(sequence, w1, target, target)

\* the final pass leaving the node without its arc
FinalPassNode_skip(sequence, w, node) == w

\* the body of the final pass for one node that is not L or R
FinalPassNode(sequence, w, node) ==
    LET target == get_target_node(sequence, node)
    IN  IF target = None THEN w ELSE Draw(w, node, target)

\* update_visualization: expanded = expand_sequence_with_lr(current_sequence)
ExpandSequence ==
    /\ apc = "call"
    /\ expanded_sequence' = expand_sequence_with_lr(current_sequence)
    /\ apc' = "expanded"
    /\ UNCHANGED <<current_sequence, viz_step, union_lines, unions, nodes_in_cycles,
                   drawn_arcs, arcs, start_idx, current_idx, cycle_nodes, cycles,
                   node_idx, target_idx>>
    /\ UNCHANGED <<searchVars, heap, pc, op>>
    /\ UNCHANGED tabVars

\* the diagram made with the two sets of _draw_cycle_arcs kept from the call
\* before, as module-level sets would be
CreateDiagram_keeps_sets ==
    /\ apc = "expanded"
    /\ union_lines' = IF viz_step >= 1 THEN StraightLines(Len(expanded_sequence))
                      ELSE {}
    /\ IF viz_step >= 2
       THEN /\ unions' = BuildUnions(Len(expanded_sequence))
            /\ apc' = "for"
       ELSE /\ unions' = unions
            /\ apc' = "shown"
    /\ arcs' = <<>>
    /\ cycles' = <<>>
    /\ start_idx' = 0
    /\ UNCHANGED <<current_sequence, viz_step, expanded_sequence, current_idx,
                   cycle_nodes, node_idx, target_idx, nodes_in_cycles, drawn_arcs>>
    /\ UNCHANGED <<searchVars, heap, pc, op>>
    /\ UNCHANGED tabVars

\* create_expanded_sequence_diagram(expanded, step=viz_step), up to the first
\* pass of the tracing loop of _draw_cycle_arcs: a new figure (no arc on it),
\* the straight lines, and the locals of _draw_cycle_arcs, made anew
CreateDiagram ==
    /\ apc = "expanded"
    /\ union_lines' = IF viz_step >= 1 THEN StraightLines(Len(expanded_sequence))
                      ELSE {}
    /\ IF viz_step >= 2
       THEN /\ unions' = BuildUnions(Len(expanded_sequence))
            /\ apc' = "for"
       ELSE /\ unions' = unions
            /\ apc' = "shown"
    /\ arcs' = <<>>
    /\ cycles' = <<>>
    /\ nodes_in_cycles' = {}
    /\ drawn_arcs' = {}
    /\ start_idx' = 0
    /\ UNCHANGED <<current_sequence, viz_step, expanded_sequence, current_idx,
                   cycle_nodes, node_idx, target_idx>>
    /\ UNCHANGED <<searchVars, heap, pc, op>>
    /\ UNCHANGED tabVars

\* for start_idx in range(n): the loop ends, skips this start, or opens a trace
ForStart ==
    /\ apc = "for"
    /\ IF start_idx >= Len(expanded_sequence)
       THEN /\ apc' = "final"
            /\ node_idx' = 0
            /\ UNCHANGED <<start_idx, current_idx, cycle_nodes>>
       ELSE IF \/ start_idx = l_idx(expanded_sequence)
               \/ start_idx = r_idx(expanded_sequence)
               \/ start_idx \in nodes_in_cycles
       THEN /\ start_idx' = start_idx + 1
            /\ UNCHANGED <<apc, node_idx, current_idx, cycle_nodes>>
       ELSE /\ current_idx' = start_idx
            /\ cycle_nodes' = {start_idx}
            /\ apc' = "while"
            /\ UNCHANGED <<start_idx, node_idx>>
    /\ UNCHANGED <<current_sequence, viz_step, expanded_sequence, union_lines, unions,
                   nodes_in_cycles, drawn_arcs, arcs, cycles, target_idx>>
    /\ UNCHANGED <<searchVars, heap, pc, op>>
    /\ UNCHANGED tabVars

\* one pass of while True; a break ends the trace and the for loop goes on
WhileStep ==
    /\ apc = "while"
    /\ \E w \in {WhileBody(expanded_sequence, start_idx,
                    [current_idx |-> current_idx, cycle_nodes |-> cycle_nodes,
                     nodes_in_cycles |-> nodes_in_cycles, drawn_arcs |-> drawn_arcs,
                     arcs |-> arcs, target_idx |-> target_idx, brk |-> FALSE])} :
          /\ current_idx' = w.current_idx
          /\ cycle_nodes' = w.cycle_nodes
          /\ nodes_in_cycles' = w.nodes_in_cycles
          /\ drawn_arcs' = w.drawn_arcs
          /\ arcs' = w.arcs
          /\ target_idx' = w.target_idx
          /\ IF w.brk
             THEN /\ cycles' = Append(cycles, w.cycle_nodes)
                  /\ start_idx' = start_idx + 1
                  /\ apc' = "for"
             ELSE UNCHANGED <<cycles, start_idx, apc>>
    /\ UNCHANGED <<current_sequence, viz_step, expanded_sequence, union_lines, unions,
                   node_idx>>
    /\ UNCHANGED <<searchVars, heap, pc, op>>
    /\ UNCHANGED tabVars

\* for node_idx in range(n): the final pass, one node at a time
FinalPass ==
    /\ apc = "final"
    /\ IF node_idx >= Len(expanded_sequence)
       THEN /\ apc' = "drawn"
            /\ UNCHANGED <<node_idx, drawn_arcs, arcs, target_idx>>
       ELSE IF \/ node_idx = l_idx(expanded_sequence)
               \/ node_idx = r_idx(expanded_sequence)
       THEN /\ node_idx' = node_idx + 1
            /\ UNCHANGED <<apc, drawn_arcs, arcs, target_idx>>
       ELSE \E w \in {FinalPassNode(expanded_sequence,
                         [drawn_arcs |-> drawn_arcs, arcs |-> arcs], node_idx)} :
               /\ drawn_arcs' = w.drawn_arcs
               /\ arcs' = w.arcs
               /\ target_idx' = get_target_node(expanded_sequence, node_idx)
               /\ node_idx' = node_idx + 1
               /\ UNCHANGED apc
    /\ UNCHANGED <<current_sequence, viz_step, expanded_sequence, union_lines, unions,
                   nodes_in_cycles, start_idx, current_idx, cycle_nodes, cycles>>
    /\ UNCHANGED <<searchVars, heap, pc, op>>
    /\ UNCHANGED tabVars

\* the tokens of the steps of a result: a sign and a label
VizTokens == {Token(v, sgn) : v \in 0..MaxLen, sgn \in {1, -1}}

\* the sequences a diagram is asked for
VizInputs == UNION {[1..n -> VizTokens] : n \in 0..MaxLen}

\* no search is under way
SearchIdle ==
    /\ initial_seq = <<>>
    /\ target_seq = <<>>
    /\ heap = <<>>
    /\ initial_parsed = 0
    /\ target_parsed = 0
    /\ queue = <<>>
    /\ visited = {}
    /\ expanded = <<>>
    /\ steps = <<>>
    /\ num_steps = 0
    /\ err = ""
    /\ result = NoResult
    /\ pc = "idle"
    /\ prev = NoCall
    /\ op = NoOp
    /\ applied = <<>>

\* a diagram is asked for a sequence: by the tab with viz_step 0, 1 or 2, by
\* visualize_sequence_expansion with the default step 0
InitArcs ==
    /\ SearchIdle
    /\ TabIdle
    /\ current_sequence \in VizInputs
    /\ viz_step \in (IF current_sequence = <<>> THEN {0} ELSE 0..2)
    /\ expanded_sequence = <<>>
    /\ union_lines = {}
    /\ unions = <<>>
    /\ nodes_in_cycles = {}
    /\ drawn_arcs = {}
    /\ arcs = <<>>
    /\ start_idx = 0
    /\ current_idx = 0
    /\ cycle_nodes = {}
    /\ cycles = <<>>
    /\ node_idx = 0
    /\ target_idx = None
    /\ apc = "call"

NextArcs ==
    \/ ExpandSequence
    \/ CreateDiagram
    \/ ForStart
    \/ WhileStep
    \/ FinalPass

SpecArcs == InitArcs /\ [][NextArcs]_vars

\* the signed arrangements of 1..n, and the shorter sequences over the labels
\* 0 and 1
TraceInputs ==
    UNION {SignedPerms(n) : n \in 0..MaxLen}
    \cup UNION {[1..n -> {Token(v, sgn) : v \in 0..1, sgn \in {1, -1}}] :
                    n \in 1..(MaxLen - 1)}

InitTrace ==
    /\ SearchIdle
    /\ TabIdle
    /\ current_sequence \in TraceInputs
    /\ viz_step = (IF current_sequence = <<>> THEN 0 ELSE 2)
    /\ expanded_sequence = <<>>
    /\ union_lines = {}
    /\ unions = <<>>
    /\ nodes_in_cycles = {}
    /\ drawn_arcs = {}
    /\ arcs = <<>>
    /\ start_idx = 0
    /\ current_idx = 0
    /\ cycle_nodes = {}
    /\ cycles = <<>>
    /\ node_idx = 0
    /\ target_idx = None
    /\ apc = "call"

\* the call runs on: a statement that can be executed is executed
SpecArcsFair == InitTrace /\ [][NextArcs]_vars /\ WF_vars(NextArcs)

---------------------------------------------------------------------------
(* get_target_node on its own: one expanded sequence, one node *)

InitTarget ==
    /\ SearchIdle
    /\ TabIdle
    /\ \E s \in VizInputs :
          /\ current_sequence = s
          /\ expanded_sequence = expand_sequence_with_lr(s)
    /\ node_idx \in 0..(Len(expanded_sequence) - 1)
    /\ viz_step = 0
    /\ union_lines = {}
    /\ unions = <<>>
    /\ nodes_in_cycles = {}
    /\ drawn_arcs = {}
    /\ arcs = <<>>
    /\ start_idx = 0
    /\ current_idx = 0
    /\ cycle_nodes = {}
    /\ cycles = <<>>
    /\ target_idx = None
    /\ apc = "ask"

GetTarget ==
    /\ apc = "ask"
    /\ target_idx' = get_target_node(expanded_sequence, node_idx)
    /\ apc' = "answered"
    /\ UNCHANGED <<current_sequence, viz_step, expanded_sequence, union_lines, unions,
                   nodes_in_cycles, drawn_arcs, arcs, start_idx, current_idx,
                   cycle_nodes, cycles, node_idx>>
    /\ UNCHANGED <<searchVars, heap, pc, op>>
    /\ UNCHANGED tabVars

NextTarget == GetTarget

SpecTarget == InitTarget /\ [][NextTarget]_vars

---------------------------------------------------------------------------
(* The tab (src/ui/function3_tab.py) and its validators                    *)
(* (src/utils/validators.py).  The text of an entry is a Python str, a     *)
(* sequence of one-character strings.                                      *)

\* str.strip(), of blanks
RECURSIVE lstrip(_)
lstrip(s) == IF s # <<>> /\ Head(s) = " " THEN lstrip(Tail(s)) ELSE s

strip(s) == reversed(lstrip(reversed(lstrip(s))))

\* str.split(separator): the pieces between the separators, empty ones kept
RECURSIVE split(_, _)
split(s, separator) ==
    IF \A k \in 1..Len(s) : s[k] # separator THEN <<s>>
    ELSE LET k == CHOOSE k \in 1..Len(s) :
                      s[k] = separator /\ \A m \in 1..(k - 1) : s[m] # separator
         IN  <<SubSeq(s, 1, k - 1)>> \o split(SubSeq(s, k + 1, Len(s)), separator)

EmptyInput == "La entrada no puede estar vacia"
NoElements == "No se encontraron elementos validos en la entrada"
TooLong == "La secuencia debe tener como maximo 10 elementos"
TabLengthMismatch == "Las secuencias deben tener la misma longitud"

NotEmpty(elem) == elem # <<>>

\* parse_input_sequence(input_str): the list of elements, or the message of
\* the ValidationError raised
parse_input_sequence(input_str) ==
    IF input_str = <<>> \/ strip(input_str) = <<>>
    THEN [error |-> EmptyInput, elements |-> <<>>]
    ELSE LET pieces == split(input_str, ",")
             elements == SelectSeq([k \in 1..Len(pieces) |-> strip(pieces[k])],
                                   NotEmpty)
         IN  IF elements = <<>>
             THEN [error |-> NoElements, elements |-> <<>>]
             ELSE [error |-> "", elements |-> elements]

\* validate_sequence_length(sequence, max_length=max_length): the message of
\* the ValidationError raised, "" if none
validate_sequence_length(sequence, max_length) ==
    IF Len(sequence) > max_length THEN TooLong ELSE ""

\* the checks of calculate_steps before the search, in their order: the two
\* entries parsed, the two lengths against 10, the lengths against each other
Validation(initial_str, target_str) ==
    LET i == parse_input_sequence(initial_str)
        t == parse_input_sequence(target_str)
        error == IF i.error # "" THEN i.error
                 ELSE IF t.error # "" THEN t.error
                 ELSE IF validate_sequence_length(i.elements, MaxElements) # ""
                 THEN validate_sequence_length(i.elements, MaxElements)
                 ELSE IF validate_sequence_length(t.elements, MaxElements) # ""
                 THEN validate_sequence_length(t.elements, MaxElements)
                 ELSE IF Len(i.elements) # Len(t.elements) THEN TabLengthMismatch
                 ELSE ""
    IN  [error |-> error, initial_seq |-> i.elements, target_seq |-> t.elements]

\* the last index with two more than the sub-steps there are
MaxVizStep_two_more(num_algorithm_steps) == 3 + num_algorithm_steps * 2 - 1

\* self.max_viz_step = 3 + (num_algorithm_steps - 1) * 2 - 1
MaxVizStep(num_algorithm_steps) == 3 + (num_algorithm_steps - 1) * 2 - 1

\* algorithm_step of update_visualization for a step
AlgorithmStepOf(step) == IF step < 3 THEN 0 ELSE ((step - 3) \div 2) + 1

\* viz_substep of update_visualization for a step
VizSubstepOf(step) == IF step < 3 THEN step ELSE ((step - 3) % 2) + 1

\* int(s) raises ValueError
IntRaises(s) == ~(isdigit(s) \/ (s # <<>> /\ Head(s) = "-" /\ isdigit(Tail(s))))

\* create_expanded_sequence_diagram raises: at step 2 get_target_node is
\* asked about every node that is not L or R, and takes int(elem[1:])
DiagramRaises(sequence, step) ==
    /\ step >= 2
    /\ \E k \in 1..Len(sequence) :
          sequence[k] \notin {L, R} /\ IntRaises(Tail(sequence[k]))

figVars == <<expanded_sequence, union_lines, unions, nodes_in_cycles, drawn_arcs,
             arcs, start_idx, current_idx, cycle_nodes, cycles, node_idx,
             target_idx>>

callVars == <<heap, initial_parsed, target_parsed, queue, visited, expanded,
              steps, num_steps, err, result, applied>>

\* update_visualization(step) with current_result res and max_viz_step max, up
\* to the call of expand_sequence_with_lr; back is where the tab goes on.  The
\* handler returns at once without a result, for a step out of range and for
\* an algorithm_step past the path; an exception of the diagram is caught and
\* leaves the tab without a figure.
UpdateVisualization(res, max, step, back) ==
    IF res = NoResult \/ step < 0 \/ step > max
    THEN /\ tpc' = back
         /\ UNCHANGED <<current_sequence, viz_step, apc, resume, algorithm_step>>
    ELSE /\ algorithm_step' = AlgorithmStepOf(step)
         /\ IF AlgorithmStepOf(step) >= Len(res.steps)
            THEN /\ tpc' = back
                 /\ UNCHANGED <<current_sequence, viz_step, apc, resume>>
            ELSE /\ current_sequence' = res.steps[AlgorithmStepOf(step) + 1]
                 /\ viz_step' = Min(VizSubstepOf(step), 2)
                 /\ IF DiagramRaises(
                          expand_sequence_with_lr(res.steps[AlgorithmStepOf(step) + 1]),
                          Min(VizSubstepOf(step), 2))
                    THEN /\ apc' = "raised"
                         /\ tpc' = back
                         /\ UNCHANGED resume
                    ELSE /\ apc' = "call"
                         /\ tpc' = "figure"
                         /\ resume' = back

\* the figure is made: update_visualization packs the canvas and returns
FigureDone ==
    /\ tpc = "figure"
    /\ apc \in {"shown", "drawn"}
    /\ tpc' = resume
    /\ resume' = "none"
    /\ UNCHANGED <<initial_entry, target_entry, current_result, max_viz_step,
                   viz_step_var, shown, search_args, algorithm_step>>
    /\ UNCHANGED <<searchVars, heap, pc, op>>
    /\ UNCHANGED arcVars

\* calculate_steps up to self.update(): both entries are read, parsed and
\* checked.  A ValidationError is shown and ends the handler.  initial_seq and
\* target_seq are the locals of the handler, handed to the search later.
CalculateStart ==
    /\ tpc = "idle"
    /\ \E v \in {Validation(initial_entry, target_entry)} :
          IF v.error # ""
          THEN /\ shown' = "Error de Validacion"
               /\ UNCHANGED <<initial_seq, target_seq, tpc>>
          ELSE /\ shown' = ""
               /\ initial_seq' = v.initial_seq
               /\ target_seq' = v.target_seq
               /\ tpc' = "update"
    /\ UNCHANGED <<initial_entry, target_entry, current_result, max_viz_step,
                   viz_step_var, resume, search_args, algorithm_step>>
    /\ UNCHANGED <<callVars, pc, prev, op>>
    /\ UNCHANGED arcVars

\* self.update() has returned: result = reversal_sort_directed(initial_seq,
\* target_seq) is called
CalculateSearch ==
    /\ tpc = "update"
    /\ tpc' = "search"
    /\ search_args' = <<initial_seq, target_seq>>
    /\ heap' = <<>>
    /\ initial_parsed' = 0
    /\ target_parsed' = 0
    /\ queue' = <<>>
    /\ visited' = {}
    /\ expanded' = <<>>
    /\ steps' = <<>>
    /\ num_steps' = 0
    /\ err' = ""
    /\ result' = NoResult
    /\ applied' = <<>>
    /\ pc' = "call"
    /\ UNCHANGED <<initial_seq, target_seq, prev, op>>
    /\ UNCHANGED <<initial_entry, target_entry, current_result, max_viz_step,
                   viz_step_var, shown, resume, algorithm_step>>
    /\ UNCHANGED arcVars

\* calculate_steps after the search: the result is kept, max_viz_step set,
\* viz_step_var set to 0 and update_visualization(step=0) called; an
\* exception of the search is shown and nothing is kept
CalculateEnd ==
    /\ tpc = "search"
    /\ pc \in {"done", "raised"}
    /\ pc' = "idle"
    /\ IF pc = "raised"
       THEN /\ shown' = "Error"
            /\ tpc' = "idle"
            /\ UNCHANGED <<current_result, max_viz_step, viz_step_var,
                           current_sequence, viz_step, apc, resume, algorithm_step>>
       ELSE /\ current_result' = result
            /\ max_viz_step' = MaxVizStep(Len(result.steps))
            /\ viz_step_var' = 0
            /\ UpdateVisualization(result, MaxVizStep(Len(result.steps)), 0, "idle")
            /\ UNCHANGED shown
    /\ UNCHANGED <<initial_entry, target_entry, search_args>>
    /\ UNCHANGED <<initial_seq, target_seq, callVars, prev, op>>
    /\ UNCHANGED figVars

\* prev_viz_step, from the event loop or from self.update() of calculate_steps
prev_viz_step ==
    /\ tpc \in {"idle", "update"}
    /\ viz_step_var > 0
    /\ viz_step_var' = viz_step_var - 1
    /\ UpdateVisualization(current_result, max_viz_step, viz_step_var - 1, tpc)
    /\ UNCHANGED <<initial_entry, target_entry, current_result, max_viz_step, shown,
                   search_args>>
    /\ UNCHANGED <<searchVars, heap, pc, op>>
    /\ UNCHANGED figVars

\* next_viz_step, from the event loop or from self.update() of calculate_steps
next_viz_step ==
    /\ tpc \in {"idle", "update"}
    /\ viz_step_var < max_viz_step
    /\ viz_step_var' = viz_step_var + 1
    /\ UpdateVisualization(current_result, max_viz_step, viz_step_var + 1, tpc)
    /\ UNCHANGED <<initial_entry, target_entry, current_result, max_viz_step, shown,
                   search_args>>
    /\ UNCHANGED <<searchVars, heap, pc, op>>
    /\ UNCHANGED figVars

\* the fields clear_results writes, clear_visualization closing the figure
ClearResults ==
    /\ current_result' = NoResult
    /\ max_viz_step' = 0
    /\ viz_step_var' = 0
    /\ algorithm_step' = None
    /\ current_sequence' = <<>>
    /\ viz_step' = 0
    /\ expanded_sequence' = <<>>
    /\ union_lines' = {}
    /\ unions' = <<>>
    /\ nodes_in_cycles' = {}
    /\ drawn_arcs' = {}
    /\ arcs' = <<>>
    /\ start_idx' = 0
    /\ current_idx' = 0
    /\ cycle_nodes' = {}
    /\ cycles' = <<>>
    /\ node_idx' = 0
    /\ target_idx' = None
    /\ apc' = "idle"

\* clear_results, from the event loop or from self.update() of calculate_steps
clear_results ==
    /\ tpc \in {"idle", "update"}
    /\ current_result # NoResult
    /\ ClearResults
    /\ UNCHANGED <<initial_entry, target_entry, shown, tpc, resume, search_args>>
    /\ UNCHANGED <<searchVars, heap, pc, op>>

\* the text of a list of tokens as the examples write it: ", " between them
RECURSIVE Join(_)
Join(tokens) ==
    IF tokens = <<>> THEN <<>>
    ELSE IF Len(tokens) = 1 THEN tokens[1]
    ELSE tokens[1] \o <<",", " ">> \o Join(Tail(tokens))

\* EXAMPLE_PAIRS, its first two pairs
EXAMPLE_PAIRS ==
    << <<Join(<<Token(1, 1), Token(2, -1), Token(3, 1), Token(4, -1)>>), Join(Ident(4))>>,
       <<Join(<<Token(3, -1), Token(1, 1), Token(2, -1)>>), Join(Ident(3))>> >>

\* load_example: one of the examples is put in the entries, the results cleared
load_example ==
    /\ tpc \in {"idle", "update"}
    /\ \E example \in {EXAMPLE_PAIRS[k] : k \in 1..Len(EXAMPLE_PAIRS)} :
          /\ initial_entry' = example[1]
          /\ target_entry' = example[2]
    /\ ClearResults
    /\ UNCHANGED <<shown, tpc, resume, search_args>>
    /\ UNCHANGED <<searchVars, heap, pc, op>>

\* what the user types in the two entries
TypedPairs ==
    {
      \* a distance of zero, of one, and no way to the target
      <<Join(Ident(1)), Join(Ident(1))>>,
      <<Join(<<Token(1, -1)>>), Join(Ident(1))>>,
      <<Join(Ident(1)), Join(<<Token(2, 1)>>)>>,
      \* two elements; blanks and empty pieces around them
      <<Join(<<Token(2, -1), Token(1, 1)>>), Join(Ident(2))>>,
      <<(<<" ">> \o Token(1, 1) \o <<" ", ",", ",">> \o Token(2, -1) \o <<" ">>),
        Join(Ident(2))>>,
      \* an entry left empty, an entry of separators alone
      <<<<>>, Join(Ident(1))>>,
      <<Join(Ident(1)), <<" ", ",", " ">>>>,
      \* lengths that differ, a length past the limit
      <<Join(Ident(2)), Join(Ident(1))>>,
      <<Join(Ident(MaxElements + 1)), Join(Ident(MaxElements + 1))>>,
      \* tokens that are no numbers
      <<Join(<<<<"+", "a">>>>), Join(<<<<"-", "a">>>>)>>
    }

\* the user edits the two entries
Type ==
    /\ tpc \in {"idle", "update"}
    /\ \E p \in TypedPairs :
          /\ <<initial_entry, target_entry>> # p
          /\ initial_entry' = p[1]
          /\ target_entry' = p[2]
    /\ UNCHANGED <<current_result, max_viz_step, viz_step_var, shown, tpc, resume,
                   search_args, algorithm_step>>
    /\ UNCHANGED <<searchVars, heap, pc, op>>
    /\ UNCHANGED arcVars

\* Function3Tab.__init__: the first example in the entries, no result
InitTab ==
    /\ SearchIdle
    /\ ArcsIdle
    /\ initial_entry = EXAMPLE_PAIRS[1][1]
    /\ target_entry = EXAMPLE_PAIRS[1][2]
    /\ current_result = NoResult
    /\ max_viz_step = 0
    /\ viz_step_var = 0
    /\ shown = ""
    /\ tpc = "idle"
    /\ resume = "none"
    /\ search_args = <<>>
    /\ algorithm_step = None

NextTab ==
    \/ Type
    \/ load_example
    \/ CalculateStart
    \/ CalculateSearch
    \/ Call
    \/ Expand
    \/ Exhausted
    \/ Reconstruct
    \/ CalculateEnd
    \/ ExpandSequence
    \/ CreateDiagram
    \/ ForStart
    \/ WhileStep
    \/ FinalPass
    \/ FigureDone
    \/ prev_viz_step
    \/ next_viz_step
    \/ clear_results

SpecTab == InitTab /\ [][NextTab]_vars

---------------------------------------------------------------------------
(* Claims on the search (Spec) *)

\* the signed reversal (i, j) of a sequence, 0 <= i <= j < Len(s)
SignedReversal(s, i, j) ==
    [k \in 1..Len(s) |->
        IF i + 1 <= k /\ k <= j + 1
        THEN [value |-> s[i + j + 2 - k].value, sign |-> 0 - s[i + j + 2 - k].sign]
        ELSE s[k]]

\* the sequences one signed reversal (i, j), i <= j, away from s
Neighbours(s) ==
    UNION {{SignedReversal(s, i, j) : j \in i..(Len(s) - 1)} : i \in 0..(Len(s) - 1)}

\* the least number of signed reversals from a sequence of reached to b, the
\* sequences of frontier being exactly d reversals away; -1 if there is none
RECURSIVE MinDistFrom(_, _, _, _)
MinDistFrom(reached, frontier, b, d) ==
    IF b \in frontier THEN d
    ELSE LET nxt == UNION {Neighbours(s) : s \in frontier} \ reached
         IN  IF nxt = {} THEN -1
             ELSE MinDistFrom(reached \cup nxt, nxt, b, d + 1)

MinDist(a, b) == MinDistFrom({a}, {a}, b, 0)

\* C1: when target is reachable from initial, the step count returned by
\* reversal_distance_directed_bfs is the least number of signed reversals
\* (i, j) that turn initial into target: no shorter chain reaches target.
C1_DistanceIsMinimum ==
    pc = "returned" =>
        LET m == MinDist(heap[initial_parsed], heap[target_parsed])
        IN  m >= 0 => num_steps = m

\* a search has returned a target three reversals away
C1_Witness ==
    /\ pc = "returned"
    /\ num_steps = 3
    /\ Len(expanded) > 1

\* C2: whenever the search returns a distance d >= 0, the returned path has
\* d + 1 states, the first equal to initial and the last equal to target.
C2_PathEnds ==
    (pc = "returned" /\ num_steps >= 0) =>
        /\ Len(steps) = num_steps + 1
        /\ ListEq(heap[steps[1]], heap[initial_parsed])
        /\ ListEq(heap[steps[Len(steps)]], heap[target_parsed])

\* a search has returned a path of three states
C2_Witness ==
    /\ pc = "returned"
    /\ num_steps = 2
    /\ Len(steps) = 3

\* C3: in every result of calculate_steps_directed the reversions are one
\* fewer than the steps, and the k-th reversion (i, j) applied to step k gives
\* exactly step k + 1.
C3_ReversionsReplay ==
    pc = "done" =>
        /\ Len(result.reversions) = Len(result.steps) - 1
        /\ \A k \in 1..Len(result.reversions) :
              SignedReversal(parse_signed_sequence(result.steps[k]),
                             result.reversions[k][1], result.reversions[k][2])
                  = parse_signed_sequence(result.steps[k + 1])

\* a result whose reversions hold a single-element flip and a longer range
C3_Witness ==
    /\ pc = "done"
    /\ \E k \in 1..Len(result.reversions) :
          result.reversions[k][1] = result.reversions[k][2]
    /\ \E k \in 1..Len(result.reversions) :
          result.reversions[k][1] < result.reversions[k][2]

\* C4: when initial equals target, for every length from 0 to 10, the call
\* returns distance 0, the path [initial] and no reversions, and no state is
\* expanded.
C4_EqualIsZero ==
    LET ip == parse_signed_sequence(initial_seq)
        tp == parse_signed_sequence(target_seq)
    IN  (pc \in {"bfs", "returned", "raised", "done"} /\ ip = tp
            /\ Len(ip) <= MaxElements) =>
            /\ pc \in {"returned", "done"}
            /\ num_steps = 0
            /\ steps = <<initial_parsed>>
            /\ expanded = <<>>
            /\ (pc = "done" =>
                  /\ result.num_steps = 0
                  /\ result.steps = <<initial_seq>>
                  /\ result.reversions = <<>>)

\* a call on two equal sequences of ten elements has given its result
C4_Witness ==
    /\ pc = "done"
    /\ initial_seq = target_seq
    /\ Len(initial_seq) = MaxElements

LabelsOf(s) == {s[k].value : k \in 1..Len(s)}

\* the two sequences hold the same labels the same number of times
SameLabelMultiset(a, b) ==
    /\ Len(a) = Len(b)
    /\ \A v \in LabelsOf(a) \cup LabelsOf(b) :
          Cardinality({k \in 1..Len(a) : a[k].value = v})
              = Cardinality({k \in 1..Len(b) : b[k].value = v})

\* C5: for equal-length A and B with the same multiset of labels, the
\* distance returned for (A, B) equals the distance returned for (B, A).
C5_DistanceSymmetric ==
    (/\ pc = "done"
     /\ prev # NoCall
     /\ prev.result # NoResult
     /\ prev.initial = target_seq
     /\ prev.target = initial_seq
     /\ SameLabelMultiset(parse_signed_sequence(initial_seq),
                          parse_signed_sequence(target_seq)))
        => result.num_steps = prev.result.num_steps

\* both directions have been answered, three reversals apart
C5_Witness ==
    /\ pc = "done"
    /\ prev # NoCall
    /\ prev.result # NoResult
    /\ prev.initial = target_seq
    /\ prev.target = initial_seq
    /\ result.num_steps = 3

\* C11: when initial and target have the same length, within the limit, and
\* different multisets of labels (target cannot be reached), the call does not
\* raise: the search returns distance -1 with the path [initial], and the
\* result reports -1, the one step initial and an empty list of reversions.
C11_UnreachableGivesMinusOne ==
    LET ip == parse_signed_sequence(initial_seq)
        tp == parse_signed_sequence(target_seq)
    IN  (/\ pc \in {"returned", "raised", "done"}
         /\ Len(ip) = Len(tp)
         /\ Len(ip) <= MaxElements
         /\ ~SameLabelMultiset(ip, tp))
            => /\ pc # "raised"
               /\ err = ""
               /\ MinDist(ip, tp) = -1
               /\ num_steps = -1
               /\ steps = <<initial_parsed>>
               /\ (pc = "done" =>
                     /\ result.num_steps = -1
                     /\ Len(result.steps) = 1
                     /\ parse_signed_sequence(result.steps[1]) = ip
                     /\ result.reversions = <<>>)

\* a call on three elements with another label in the target has searched
\* every arrangement and given its result
C11_Witness ==
    /\ pc = "done"
    /\ Len(initial_seq) = MaxLen
    /\ Len(target_seq) = MaxLen
    /\ ~SameLabelMultiset(parse_signed_sequence(initial_seq),
                          parse_signed_sequence(target_seq))
    /\ Len(expanded) > MaxLen
    /\ result.num_steps = -1

\* C12: for all initial and target of equal length that arrange the same
\* multiset of labels, with any signs, the search returns a distance >= 0,
\* never -1.
C12_SameLabelsReachable ==
    (/\ pc \in {"returned", "done"}
     /\ SameLabelMultiset(parse_signed_sequence(initial_seq),
                          parse_signed_sequence(target_seq)))
        => num_steps >= 0

\* a search over one repeated label has returned a target two reversals away
C12_Witness ==
    /\ pc = "returned"
    /\ Len(initial_seq) = MaxLen
    /\ LabelsOf(parse_signed_sequence(initial_seq)) = {1}
    /\ LabelsOf(parse_signed_sequence(target_seq)) = {1}
    /\ num_steps = 2

\* the sets of sequences exactly 0, 1, 2, ... signed reversals from b, the
\* nearest first
RECURSIVE LayersFrom(_, _, _)
LayersFrom(reached, frontier, acc) ==
    LET nxt == UNION {Neighbours(s) : s \in frontier} \ reached
    IN  IF nxt = {} THEN Append(acc, frontier)
        ELSE LayersFrom(reached \cup nxt, nxt, Append(acc, frontier))

Layers(b) == LayersFrom({b}, {b}, <<>>)

\* (i, j) pairs in ascending i, then ascending j
PairLess(p, q) == p[1] < q[1] \/ (p[1] = q[1] /\ p[2] < q[2])

\* C13: the reversions returned are the lexicographically least list of
\* (i, j) among all chains of minimum length from initial to target: they are
\* such a chain, and at no step does a smaller (i, j) lead to a state from
\* which target is still reachable in the remaining number of reversals.
C13_LexLeastChain ==
    (pc = "done" /\ result.num_steps >= 1) =>
        LET d == result.num_steps
            at(k) == parse_signed_sequence(result.steps[k])
            layers == Layers(parse_signed_sequence(target_seq))
            n == Len(initial_seq)
        IN  /\ Len(result.reversions) = d
            /\ Len(result.steps) = d + 1
            /\ at(1) = parse_signed_sequence(initial_seq)
            /\ at(d + 1) = parse_signed_sequence(target_seq)
            /\ d + 1 <= Len(layers)
            /\ at(1) \in layers[d + 1]
            /\ \A k \in 1..d :
                  /\ SignedReversal(at(k), result.reversions[k][1],
                                    result.reversions[k][2]) = at(k + 1)
                  /\ \A i \in 0..(n - 1) : \A j \in i..(n - 1) :
                        PairLess(<<i, j>>, result.reversions[k]) =>
                            SignedReversal(at(k), i, j) \notin layers[d - k + 1]

\* a result of three reversals, none of them the first (i, j) of the scan,
\* and one of them smaller than the first of the chain
C13_Witness ==
    /\ pc = "done"
    /\ result.num_steps = 3
    /\ \A k \in 1..Len(result.reversions) : result.reversions[k] # <<0, 0>>
    /\ \E k \in 1..Len(result.reversions) :
          PairLess(result.reversions[k], result.reversions[1])

\* the first (start, end), in ascending start then ascending end, whose signed
\* reversal of current is next
FirstMatch(current, next) ==
    CHOOSE p \in {<<i, j>> : i, j \in 0..(Len(current) - 1)} :
        /\ p[1] <= p[2]
        /\ SignedReversal(current, p[1], p[2]) = next
        /\ \A i \in 0..(Len(current) - 1) : \A j \in i..(Len(current) - 1) :
              SignedReversal(current, i, j) = next => ~PairLess(<<i, j>>, p)

\* C14: for each consecutive pair (current, next) of the returned path, the
\* reported reversal is the first (start, end), in ascending start then
\* ascending end, whose reversal of current equals next, and it is the (i, j)
\* the search applied to current when it generated next.
C14_ReportedIsApplied ==
    (pc = "done" /\ num_steps >= 1) =>
        /\ Len(result.reversions) = Len(steps) - 1
        /\ \A k \in 1..(Len(steps) - 1) :
              /\ result.reversions[k] = FirstMatch(heap[steps[k]], heap[steps[k + 1]])
              /\ \E a \in 1..Len(applied) :
                    /\ applied[a].seq = steps[k + 1]
                    /\ applied[a].from = steps[k]
                    /\ applied[a].ij = result.reversions[k]
                    /\ \A b \in 1..Len(applied) :
                          applied[b].seq = steps[k + 1] => b = a

\* a result with a step that two different (i, j) could have made
C14_Witness ==
    /\ pc = "done"
    /\ num_steps >= 1
    /\ \E k \in 1..(Len(steps) - 1) :
          \E i \in 0..(Len(initial_seq) - 1) : \E j \in i..(Len(initial_seq) - 1) :
              /\ <<i, j>> # result.reversions[k]
              /\ SignedReversal(heap[steps[k]], i, j) = heap[steps[k + 1]]

\* C8: no operation writes a sequence it was given.  Within a call the two
\* argument lists stay as passed, and every list on the heap (the parsed
\* initial and target, every state held by the frontier or by a path, every
\* argument of apply_reversal_directed) keeps its elements.
C8_NoMutation ==
    [][pc' # "call" =>
          /\ initial_seq' = initial_seq
          /\ target_seq' = target_seq
          /\ \A r \in DOMAIN heap : r \in DOMAIN heap' /\ heap'[r] = heap[r]]_vars

\* a search under way: states expanded, several more waiting on the frontier
C8_Witness ==
    /\ pc = "bfs"
    /\ Len(expanded) >= 2
    /\ Len(queue) >= 2

\* C9: if initial or target has more than 10 elements, the call fails with
\* the LengthExceeded error before any state is expanded.
C9_EitherTooLongExceeded ==
    (pc # "call" /\ (Len(initial_seq) > MaxElements \/ Len(target_seq) > MaxElements))
        => /\ pc = "raised"
           /\ err = LengthExceeded
           /\ expanded = <<>>

\* C10 as stated: if initial and target differ in length, the call fails with
\* the LengthMismatch error, no search is made and no result is returned.
C10_MismatchAlwaysMismatchError ==
    (pc # "call" /\ Len(initial_seq) # Len(target_seq))
        => /\ pc = "raised"
           /\ err = LengthMismatch
           /\ expanded = <<>>
           /\ result = NoResult

\* C10, amended: if initial and target differ in length, the call fails, no
\* search is made and no result is returned; the error is LengthMismatch when
\* initial has at most 10 elements and LengthExceeded when it has more.
C10_MismatchFails ==
    (pc # "call" /\ Len(initial_seq) # Len(target_seq))
        => /\ pc = "raised"
           /\ err = (IF Len(initial_seq) > MaxElements THEN LengthExceeded
                     ELSE LengthMismatch)
           /\ queue = <<>>
           /\ visited = {}
           /\ expanded = <<>>
           /\ steps = <<>>
           /\ result = NoResult

\* a call on a shorter and a longer sequence has raised the mismatch error
C10_Witness ==
    /\ pc = "raised"
    /\ err = LengthMismatch
    /\ 0 < Len(initial_seq)
    /\ Len(initial_seq) < Len(target_seq)

---------------------------------------------------------------------------
(* Claims on the expanded sequence and its diagram (SpecArcs, SpecTarget) *)

\* the node indices of a sequence that hold neither L nor R
NonSentinels(sequence) ==
    {i \in 0..(Len(sequence) - 1) : sequence[i + 1] # L /\ sequence[i + 1] # R}

\* C15: for every signed sequence of n elements, expand_sequence_with_lr
\* gives a list of length 2n + 2 that starts with L and ends with R and holds,
\* for element k (0-based), at positions 2k + 1 and 2k + 2 the tokens (-v, +v)
\* if the element is +v and (+v, -v) if it is -v; [+1, -3, +2] expands to
\* [L, -1, +1, +3, -3, -2, +2, R].
C15_ExpandShape ==
    apc \notin {"idle", "call"} =>
        LET n == Len(current_sequence)
            minus(k) == <<"-">> \o Tail(current_sequence[k + 1])
            plus(k) == <<"+">> \o Tail(current_sequence[k + 1])
        IN  /\ Len(expanded_sequence) = 2 * n + 2
            /\ expanded_sequence[1] = <<"L">>
            /\ expanded_sequence[2 * n + 2] = <<"R">>
            /\ \A k \in 0..(n - 1) :
                  IF Head(current_sequence[k + 1]) = "+"
                  THEN /\ expanded_sequence[2 * k + 2] = minus(k)
                       /\ expanded_sequence[2 * k + 3] = plus(k)
                  ELSE /\ expanded_sequence[2 * k + 2] = plus(k)
                       /\ expanded_sequence[2 * k + 3] = minus(k)
            /\ (current_sequence = <<(<<"+", "1">>), (<<"-", "3">>), (<<"+", "2">>)>>
                  => expanded_sequence =
                        <<(<<"L">>), (<<"-", "1">>), (<<"+", "1">>), (<<"+", "3">>),
                          (<<"-", "3">>), (<<"-", "2">>), (<<"+", "2">>), (<<"R">>)>>)

\* [+1, -3, +2] has been expanded
C15_Witness ==
    /\ apc = "expanded"
    /\ current_sequence = <<(<<"+", "1">>), (<<"-", "3">>), (<<"+", "2">>)>>
    /\ Len(expanded_sequence) = 8

\* the union pairing has been built for the sequence of the diagram
UnionsBuilt == apc \in {"for", "while", "final", "drawn"}

\* C16 as stated: the union pairing is an involution without fixed points over
\* the non-sentinel indices: every non-sentinel index i has a partner p(i)
\* that is a non-sentinel index other than i, and p(p(i)) = i.
C16_InvolutionOverNonSentinels ==
    UnionsBuilt =>
        \A i \in NonSentinels(expanded_sequence) :
            /\ i \in DOMAIN unions
            /\ unions[i] \in NonSentinels(expanded_sequence)
            /\ unions[i] # i
            /\ unions[unions[i]] = i

\* C16, amended: the union pairing is an involution without fixed points over
\* all the indices of the expanded sequence, the sentinels included: every
\* index i has a partner p(i) other than i with p(p(i)) = i; the partner of
\* the first token is L and the partner of the last token is R.
C16_InvolutionOverAllIndices ==
    UnionsBuilt =>
        LET n == Len(expanded_sequence)
        IN  /\ DOMAIN unions = 0..(n - 1)
            /\ \A i \in 0..(n - 1) :
                  /\ unions[i] \in 0..(n - 1)
                  /\ unions[i] # i
                  /\ unions[unions[i]] = i
            /\ unions[1] = l_idx(expanded_sequence)
            /\ unions[n - 2] = r_idx(expanded_sequence)

\* the pairing of a sequence of the longest length has been built
C16_Witness ==
    /\ UnionsBuilt
    /\ Len(current_sequence) = MaxLen
    /\ Cardinality(DOMAIN unions) = 2 * MaxLen + 2

\* the diagram has been made, as far as the straight lines
LinesDrawn == apc \in {"shown", "for", "while", "final", "drawn"}

\* C17 as stated: the union pairing pairs the two extremities of one element,
\* expanded index 2k + 1 with 2k + 2 for element k (0-based); L and R are
\* paired with no node; the lines of step 1 join exactly these pairs.
C17_PairsElementExtremities ==
    LET m == Len(current_sequence)
        pairs == {<<2 * k + 1, 2 * k + 2>> : k \in 0..(m - 1)}
    IN  /\ UnionsBuilt =>
              /\ \A k \in 0..(m - 1) :
                    /\ 2 * k + 1 \in DOMAIN unions
                    /\ 2 * k + 2 \in DOMAIN unions
                    /\ unions[2 * k + 1] = 2 * k + 2
                    /\ unions[2 * k + 2] = 2 * k + 1
              /\ l_idx(expanded_sequence) \notin DOMAIN unions
              /\ r_idx(expanded_sequence) \notin DOMAIN unions
        /\ (LinesDrawn /\ viz_step >= 1) => union_lines = pairs

\* C17, amended: the union pairing pairs neighbouring extremities of adjacent
\* elements: expanded index 2k is paired with 2k + 1 for k = 0..n, so L is
\* paired with the first token, the second token of element k with the first
\* token of element k + 1, and the last token with R; the two tokens of one
\* element are never paired.  The lines of step 1 join exactly these pairs,
\* and no line is drawn at step 0.
C17_PairsAdjacentExtremities ==
    LET m == Len(current_sequence)
        pairs == {<<2 * k, 2 * k + 1>> : k \in 0..m}
    IN  /\ UnionsBuilt =>
              /\ \A k \in 0..m :
                    /\ unions[2 * k] = 2 * k + 1
                    /\ unions[2 * k + 1] = 2 * k
              /\ \A k \in 0..(m - 1) : unions[2 * k + 1] # 2 * k + 2
        /\ LinesDrawn => union_lines = (IF viz_step >= 1 THEN pairs ELSE {})
        /\ (UnionsBuilt /\ viz_step >= 1) =>
              \A i \in DOMAIN unions :
                  <<i, unions[i]>> \in union_lines \/ <<unions[i], i>> \in union_lines

\* a diagram of a sequence of the longest length with its lines and pairing
C17_Witness ==
    /\ UnionsBuilt
    /\ viz_step = 2
    /\ Len(current_sequence) = MaxLen
    /\ Cardinality(union_lines) = MaxLen + 1

\* the label of a signed token
LabelOf(tok) == DecVal(Tail(tok))

NegativeNodes(sequence) ==
    {i \in 0..(Len(sequence) - 1) : Head(sequence[i + 1]) = "-"}

\* C19: the target of R is a node holding the '-' token with the largest
\* absolute value if any '-' token exists, none otherwise; the target of L is
\* the token that follows L if that token is negative, none otherwise.
C19_SentinelTargets ==
    apc = "answered" =>
        LET neg == NegativeNodes(expanded_sequence)
        IN  /\ expanded_sequence[node_idx + 1] = R =>
                  IF neg = {} THEN target_idx = None
                  ELSE /\ target_idx \in neg
                       /\ \A i \in neg :
                             LabelOf(expanded_sequence[i + 1])
                                 <= LabelOf(expanded_sequence[target_idx + 1])
            /\ expanded_sequence[node_idx + 1] = L =>
                  IF node_idx + 1 \in neg THEN target_idx = node_idx + 1
                  ELSE target_idx = None

\* C20: when _draw_cycle_arcs has ended, every non-sentinel node has its arc
\* (node, get_target_node(node)) among the arcs drawn exactly once.
C20_EveryDesireEdgeOnce ==
    apc = "drawn" =>
        \A node \in NonSentinels(expanded_sequence) :
            Cardinality({a \in 1..Len(arcs) :
                arcs[a] = <<node, get_target_node(expanded_sequence, node)>>}) = 1

\* a diagram is finished whose traces drew some of the arcs and whose final
\* pass drew the others
C20_Witness ==
    /\ apc = "drawn"
    /\ Len(current_sequence) = MaxLen
    /\ Len(arcs) = 2 * MaxLen
    /\ Len(cycles) >= 2
    /\ Len(cycles) < Len(arcs)

---------------------------------------------------------------------------
(* Claims on the traces of _draw_cycle_arcs (SpecArcs) *)

\* the traces ended that hold the node
GroupsOf(node) == {c \in 1..Len(cycles) : node \in cycles[c]}

\* C21: the node groups built by the traces partition the non-sentinel
\* nodes: every non-sentinel node is in exactly one group, and only L and R
\* may be in more than one.
C21_GroupsPartitionNodes ==
    apc \in {"final", "drawn"} =>
        \A node \in NonSentinels(expanded_sequence) :
            Cardinality(GroupsOf(node)) = 1

\* C23 as stated: in a trace, when the target has a union partner that is
\* not consumed (not in this trace, not in an earlier trace, not the start
\* node), the partner is added to the trace and the trace goes on from the
\* partner: the next pass of the loop starts at the partner.
C23_TraceContinuesFromPartner ==
    [][(/\ apc = "while"
        /\ get_target_node(expanded_sequence, current_idx) # None
        /\ get_target_node(expanded_sequence, current_idx) \notin cycle_nodes
        /\ get_target_node(expanded_sequence, current_idx) \in DOMAIN unions
        /\ LET partner == unions[get_target_node(expanded_sequence, current_idx)]
           IN  /\ partner \notin cycle_nodes
               /\ partner # start_idx
               /\ partner \notin nodes_in_cycles)
          => LET partner == unions[get_target_node(expanded_sequence, current_idx)]
             IN  /\ partner \in cycle_nodes'
                 /\ apc' = "while"
                 /\ current_idx' = partner]_vars

\* C24: every trace of the tracing loop ends, and the whole call of
\* create_expanded_sequence_diagram with it: a trace under way leads to the
\* for loop again, and every call leads to the finished diagram.
C24_DecompositionTerminates ==
    /\ (apc = "while") ~> (apc = "for")
    /\ (apc = "call") ~> (apc \in {"shown", "drawn"})

\* a call is finished whose traces ended in more than one way: one on a
\* partner that is the start node, one on a partner of an earlier trace, one
\* after taking the partner in
C24_Witness ==
    /\ apc = "drawn"
    /\ \E c \in 1..Len(cycles) : Cardinality(cycles[c]) = 2
    /\ \E c \in 1..Len(cycles) : Cardinality(cycles[c]) = 3
    /\ \E c, e \in 1..Len(cycles) : c < e /\ cycles[c] \cap cycles[e] # {}

---------------------------------------------------------------------------
(* Claims on the size and the end of the search (SpecSearchFair, Spec) *)

RECURSIVE Factorial(_)
Factorial(n) == IF n <= 1 THEN 1 ELSE n * Factorial(n - 1)

\* C25: on equal-length sequences of n <= 10 elements the search ends, and
\* the states it records as visited never number more than 2^n * n!.
C25_SearchTerminatesBounded ==
    /\ [](Cardinality(visited) <= (2 ^ Len(initial_seq)) * Factorial(Len(initial_seq)))
    /\ (pc = "call") ~> (pc = "done")
    /\ (pc = "bfs") ~> (pc = "returned")

\* a search over the longest length has ended with every one of the 2^n * n!
\* arrangements visited
C25_Witness ==
    /\ pc = "returned"
    /\ Len(initial_seq) = MaxLen
    /\ Cardinality(visited) = (2 ^ MaxLen) * Factorial(MaxLen)
    /\ Len(expanded) = Cardinality(visited)

\* the references ever put on the queue: the initial one and every new_seq
\* kept by the search, the one that matched target left out
Enqueued ==
    {initial_parsed} \cup
    {applied[a].seq : a \in {a \in 1..Len(applied) :
        ~ListEq(heap[applied[a].seq], heap[target_parsed])}}

\* C26: in a search no state is put on the frontier twice and none is
\* expanded twice; the visited key of two sequences is equal exactly when
\* the sequences are equal, and every state enqueued has its key in visited,
\* one key per state.  It is stated of a search that has set up its frontier
\* (visited holds the initial key), while it runs and when it has returned.
C26_NoStateTwice ==
    (pc \in {"bfs", "returned"} /\ visited # {}) =>
        /\ \A a, b \in 1..Len(expanded) :
              heap[expanded[a]] = heap[expanded[b]] => a = b
        /\ Cardinality({heap[r] : r \in Enqueued}) = Cardinality(Enqueued)
        /\ \A a \in 1..Len(expanded) : expanded[a] \in Enqueued
        /\ \A r, q \in 1..Len(heap) :
              (sequence_to_tuple(heap[r]) = sequence_to_tuple(heap[q]))
                  <=> ListEq(heap[r], heap[q])
        /\ visited = {sequence_to_tuple(heap[r]) : r \in Enqueued}
        /\ Cardinality(visited) = Cardinality(Enqueued)

\* a search has returned after expanding several states and leaving others
\* on the queue, repeated labels among them
C26_Witness ==
    /\ pc = "returned"
    /\ num_steps = 2
    /\ Len(initial_seq) = MaxLen
    /\ LabelsOf(heap[initial_parsed]) = {1}
    /\ Len(expanded) >= 2
    /\ Cardinality(Enqueued) > Len(expanded)

\* the sequence arranges the labels 1..n, each once, with signs
IsSignedPermutation(s) ==
    /\ \A k \in 1..Len(s) : Head(s[k]) \in {"+", "-"} /\ LabelOf(s[k]) \in 1..Len(s)
    /\ \A a, b \in 1..Len(s) : LabelOf(s[a]) = LabelOf(s[b]) => a = b

\* C29: for the expansion of a signed permutation of 1..n the targets of the
\* non-sentinel nodes are symmetric: the -1 token alone has L as target, the
\* +n token alone has R, and every other node x is the target of its target.
C29_DesireSymmetric ==
    (/\ apc = "answered"
     /\ IsSignedPermutation(current_sequence)
     /\ node_idx \in NonSentinels(expanded_sequence))
        => LET n == Len(current_sequence)
               tok == expanded_sequence[node_idx + 1]
               toL == {x \in NonSentinels(expanded_sequence) :
                          get_target_node(expanded_sequence, x) = l_idx(expanded_sequence)}
               toR == {x \in NonSentinels(expanded_sequence) :
                          get_target_node(expanded_sequence, x) = r_idx(expanded_sequence)}
           IN  /\ Cardinality(toL) = 1
               /\ Cardinality(toR) = 1
               /\ (target_idx = l_idx(expanded_sequence)) <=> (tok = Token(1, -1))
               /\ (target_idx = r_idx(expanded_sequence)) <=> (tok = Token(n, 1))
               /\ (tok # Token(1, -1) /\ tok # Token(n, 1)) =>
                     /\ target_idx \in NonSentinels(expanded_sequence)
                     /\ get_target_node(expanded_sequence, target_idx) = node_idx

\* the target of a node of a permutation of the longest length has been
\* answered with a non-sentinel node, not next to it
C29_Witness ==
    /\ apc = "answered"
    /\ IsSignedPermutation(current_sequence)
    /\ Len(current_sequence) = MaxLen
    /\ node_idx \in NonSentinels(expanded_sequence)
    /\ target_idx \in NonSentinels(expanded_sequence)
    /\ target_idx > node_idx + 1

---------------------------------------------------------------------------
(* Claims on the tab (SpecTab) *)

\* the token gives SignedElement an integer label
ParsesToInteger(tok) == IsInt(SignedElement(tok).value)

\* C22: the search is invoked only with two sequences of equal length, each
\* of at most 10 elements, every token of which parses to an integer label
\* with its sign; other input is turned down by the validation before it.
C22_SearchOnlyAfterValidation ==
    search_args # <<>> =>
        /\ Len(search_args[1]) = Len(search_args[2])
        /\ Len(search_args[1]) <= MaxElements
        /\ Len(search_args[2]) <= MaxElements
        /\ \A a \in 1..2 : \A k \in 1..Len(search_args[a]) :
              ParsesToInteger(search_args[a][k])

\* the while loop of one trace, run to its break
RECURSIVE TraceFrom(_, _, _)
TraceFrom(sequence, start, w) ==
    LET after == WhileBody(sequence, start, w)
    IN  IF after.brk THEN after ELSE TraceFrom(sequence, start, after)

\* the for loop of _draw_cycle_arcs from start on; g holds the two sets and
\* the arcs so far
RECURSIVE TracesFrom(_, _, _)
TracesFrom(sequence, start, g) ==
    IF start >= Len(sequence) THEN g
    ELSE IF \/ start = l_idx(sequence)
            \/ start = r_idx(sequence)
            \/ start \in g.nodes_in_cycles
    THEN TracesFrom(sequence, start + 1, g)
    ELSE LET w == TraceFrom(sequence, start,
                      [current_idx |-> start, cycle_nodes |-> {start},
                       nodes_in_cycles |-> g.nodes_in_cycles,
                       drawn_arcs |-> g.drawn_arcs, arcs |-> g.arcs,
                       target_idx |-> None, brk |-> FALSE])
         IN  TracesFrom(sequence, start + 1,
                        [nodes_in_cycles |-> w.nodes_in_cycles,
                         drawn_arcs |-> w.drawn_arcs, arcs |-> w.arcs])

\* the final pass from node on
RECURSIVE FinalFrom(_, _, _)
FinalFrom(sequence, node, g) ==
    IF node >= Len(sequence) THEN g
    ELSE IF node = l_idx(sequence) \/ node = r_idx(sequence)
    THEN FinalFrom(sequence, node + 1, g)
    ELSE FinalFrom(sequence, node + 1, FinalPassNode(sequence, g, node))

\* the arcs of a decomposition of the sequence that starts from two empty sets
FreshArcs(sequence) ==
    LET g == TracesFrom(sequence, 0,
                 [nodes_in_cycles |-> {}, drawn_arcs |-> {}, arcs |-> <<>>])
    IN  FinalFrom(sequence, 0, [drawn_arcs |-> g.drawn_arcs, arcs |-> g.arcs]).arcs

\* C27: the decomposition keeps nothing from one call to the next: the set of
\* consumed nodes and the set of emitted arcs start empty in every call, so
\* the arcs of a sequence are those of a decomposition started from empty
\* sets, whatever was decomposed before.
C27_NoStateAcrossCalls ==
    /\ apc = "for" /\ start_idx = 0 => nodes_in_cycles = {} /\ drawn_arcs = {}
    /\ apc = "drawn" => arcs = FreshArcs(expanded_sequence)

\* the cycles of the second state of a path are drawn, those of the first
\* state drawn before them
C27_Witness ==
    /\ tpc = "figure"
    /\ apc = "drawn"
    /\ viz_step_var = 4
    /\ algorithm_step = 1
    /\ Len(arcs) >= 2
    /\ current_result.steps[1] # current_result.steps[2]

\* C30: after any calculate, previous-step, next-step and clear the step index
\* is within 0..max_viz_step; max_viz_step is twice the number of states of
\* the path after a calculation that succeeded and 0 after clear; every index
\* in the range maps to an algorithm step below the number of states.
C30_StepIndexInRange ==
    /\ viz_step_var \in 0..max_viz_step
    /\ current_result = NoResult => max_viz_step = 0 /\ algorithm_step = None
    /\ current_result # NoResult =>
          /\ max_viz_step = 2 * Len(current_result.steps)
          /\ \A step \in 0..max_viz_step :
                AlgorithmStepOf(step) < Len(current_result.steps)
          /\ algorithm_step # None => algorithm_step < Len(current_result.steps)

\* the last index of a path of three states or more is shown, and a
\* calculation turned down after it has left the index where it was
C30_Witness ==
    /\ tpc = "idle"
    /\ current_result # NoResult
    /\ Len(current_result.steps) >= 3
    /\ viz_step_var = max_viz_step
    /\ algorithm_step = Len(current_result.steps) - 1
    /\ shown = "Error de Validacion"

====
